---- MODULE Spec2Model ----
(***************************************************************************)
(* TextureLoader (android/snapshot/TextureLoader.cpp): the lazy, indexed   *)
(* texture-snapshot loader.  One loader object over one stdio stream, used *)
(* by several threads calling start() and loadTexture().                   *)
(*                                                                         *)
(* A step of the model is one access to shared state: one stdio call on    *)
(* mStream (each is atomic, stdio locks the FILE), one access to mIndex,   *)
(* mStarted or mHasError, or one operation on mLock.                       *)
(***************************************************************************)
EXTENDS Integers, Sequences, FiniteSets, TLC

\* ------------------------------------------------------------------ bounds
NumThreads == 2
MaxTexId == 2
MaxRecords == 2
MaxCalls == 2
MaxCut == 5

Threads == 1..NumThreads
TexIds == 1..MaxTexId

\* ------------------------------------------------ 64-bit values and bytes
\* A 64-bit quantity is the pair <<high 32 bits, low 32 bits>>.
U64(hi, lo) == <<hi, lo>>

Small(n) == U64(0, n)

\* The bytes b[1..4] read as a big-endian 32-bit integer.
Be32(b) == ((b[1] * 256 + b[2]) * 256 + b[3]) * 256 + b[4]

\* The bytes b[1..8] read as a big-endian 64-bit integer.
Be64(b) == U64(Be32(SubSeq(b, 1, 4)), Be32(SubSeq(b, 5, 8)))

\* The writer's side of the format: a 32-bit integer as 4 big-endian bytes.
PutBe32(n) ==
    << (n \div 16777216) % 256, (n \div 65536) % 256, (n \div 256) % 256, n % 256 >>

PutBe64(v) == PutBe32(v[1]) \o PutBe32(v[2])

\* ------------------------------------------------------- the snapshot file
\* The writer lays the texture payloads out one after the other behind the 8-byte
\* header, a word each, and lists them in the index section in that order: the k-th
\* record is (id of the k-th texture written, position of the k-th payload).
PayloadOffset(k) == 8 + 4 * (k - 1)

IndexOffset(n) == 8 + 4 * n

RECURSIVE SeqsUpTo(_, _)
SeqsUpTo(S, n) ==
    IF n = 0 THEN { <<>> }
    ELSE LET shorter == SeqsUpTo(S, n - 1)
         IN  shorter \cup { Append(s, x) : s \in { q \in shorter : Len(q) = n - 1 }, x \in S }

\* The records of the index section for the textures written, ids in file order.
RecordsOf(ids) == [ k \in 1..Len(ids) |-> [ id |-> ids[k], off |-> PayloadOffset(k) ] ]

RECURSIVE PutRecords(_)
PutRecords(recs) ==
    IF recs = <<>> THEN <<>>
    ELSE PutBe32(Head(recs).id) \o PutBe64(Small(Head(recs).off)) \o PutRecords(Tail(recs))

\* A snapshot file in the documented layout.
WriteSnapshot(version, recs) ==
    PutBe64(Small(IndexOffset(Len(recs))))
        \o [ k \in 1..(4 * Len(recs)) |-> 0 ]
        \o PutBe32(version) \o PutBe32(Len(recs)) \o PutRecords(recs)

\* line 54: the one version readIndex() accepts.
SupportedVersion == 1

Versions == { SupportedVersion, SupportedVersion + 1 }

\* The loader only ever compares texture ids for equality, so the files are taken up
\* to a renaming of the ids: a file's ids are numbered in order of first appearance.
FirstAppearanceOrder(ids) ==
    \A k \in 1..Len(ids) : \A x \in 1..(ids[k] - 1) : \E j \in 1..(k - 1) : ids[j] = x

\* readIndex stops at a version field that is not 1 and reads nothing behind it: for
\* such a version one record list, the longest of distinct ids, stands for all.
\* cut is the number of 4-byte words missing at the end of the file: none here.
Inputs ==
    { [ version |-> SupportedVersion, recs |-> RecordsOf(ids), cut |-> 0 ] :
        ids \in { q \in SeqsUpTo(TexIds, MaxRecords) : FirstAppearanceOrder(q) } }
    \cup
    { [ version |-> v, recs |-> RecordsOf([ k \in 1..MaxRecords |-> k ]), cut |-> 0 ] :
        v \in Versions \ { SupportedVersion } }

\* A file that lost its last c words (a snapshot whose writing was interrupted).
Truncate(bytes, c) ==
    IF 4 * c >= Len(bytes) THEN <<>> ELSE SubSeq(bytes, 1, Len(bytes) - 4 * c)

\* The files of Inputs, whole or truncated by up to MaxCut words.
DamagedInputs ==
    { [ whole EXCEPT !.cut = c ] : whole \in Inputs, c \in 0..MaxCut }

\* -------------------------------------------------------------------- state
VARIABLES
    input,      \* what the writer put in the file (version, records) and how much of
                \* it is left (cut); never changes
    ndebug,     \* TRUE: built with NDEBUG, assert() compiles to nothing
    mStream,    \* [pos, err]: the FILE's position and error indicator
    mStarted,
    mHasError,
    mIndex,     \* function: texture id -> file position
    mLock,      \* 0: free, else the thread holding it
    aborted,    \* a failed assert() has terminated the process
    pc,         \* per thread: the source line it is about to execute
    texId,      \* per thread: loadTexture's argument
    word,       \* per thread: the 32-bit local in use (version, texCount, tex)
    pos64,      \* per thread: the 64-bit local in use (indexPos, filePos, mIndex[texId])
    texCount,   \* per thread: readIndex's texCount
    i,          \* per thread: readIndex's loop counter
    cbErr,      \* per thread: a read of the running callback failed
    firstStart, \* what the first start() to come back from readIndex returned
    calls,      \* per thread: calls made so far, counted where the callers' budget is bounded
    ret         \* per thread: what the thread's last call returned, if it was a start()

vars == << input, ndebug, mStream, mStarted, mHasError, mIndex, mLock, aborted,
           pc, texId, word, pos64, texCount, i, cbErr, firstStart, calls, ret >>

shared == << mStream, mStarted, mHasError, mIndex, mLock, aborted >>

locals == << texId, word, pos64, texCount, i, cbErr, ret >>

fixed == << input, ndebug, firstStart >>

\* What no step inside a call changes.
frame == << input, ndebug, firstStart, calls >>

\* The file's bytes.
file == Truncate(WriteSnapshot(input.version, input.recs), input.cut)

EmptyIndex == [ x \in {} |-> Small(0) ]

\* Init with a constructor that reads the 8-byte header: the stream is left behind it.
InitReadingHeader ==
    /\ input \in Inputs
    /\ ndebug \in BOOLEAN
    /\ mStream = [ pos |-> Small(8), err |-> FALSE ]
    /\ mStarted = FALSE
    /\ mHasError = FALSE
    /\ mIndex = EmptyIndex
    /\ mLock = 0
    /\ aborted = FALSE
    /\ pc = [ t \in Threads |-> "idle" ]
    /\ texId = [ t \in Threads |-> 0 ]
    /\ word = [ t \in Threads |-> 0 ]
    /\ pos64 = [ t \in Threads |-> Small(0) ]
    /\ texCount = [ t \in Threads |-> 0 ]
    /\ i = [ t \in Threads |-> 0 ]
    /\ cbErr = [ t \in Threads |-> FALSE ]
    /\ firstStart = "none"
    /\ calls = [ t \in Threads |-> 0 ]
    /\ ret = [ t \in Threads |-> "none" ]

\* lines 19-20: the constructor moves the stream in and does nothing else; the flags
\* start false and the index empty.
Init ==
    /\ input \in Inputs
    /\ ndebug \in BOOLEAN
    /\ mStream = [ pos |-> Small(0), err |-> FALSE ]
    /\ mStarted = FALSE
    /\ mHasError = FALSE
    /\ mIndex = EmptyIndex
    /\ mLock = 0
    /\ aborted = FALSE
    /\ pc = [ t \in Threads |-> "idle" ]
    /\ texId = [ t \in Threads |-> 0 ]
    /\ word = [ t \in Threads |-> 0 ]
    /\ pos64 = [ t \in Threads |-> Small(0) ]
    /\ texCount = [ t \in Threads |-> 0 ]
    /\ i = [ t \in Threads |-> 0 ]
    /\ cbErr = [ t \in Threads |-> FALSE ]
    /\ firstStart = "none"
    /\ calls = [ t \in Threads |-> 0 ]
    /\ ret = [ t \in Threads |-> "none" ]

\* The loader constructed over a file that may be truncated.
InitDamaged ==
    /\ input \in DamagedInputs
    /\ ndebug \in BOOLEAN
    /\ mStream = [ pos |-> Small(0), err |-> FALSE ]
    /\ mStarted = FALSE
    /\ mHasError = FALSE
    /\ mIndex = EmptyIndex
    /\ mLock = 0
    /\ aborted = FALSE
    /\ pc = [ t \in Threads |-> "idle" ]
    /\ texId = [ t \in Threads |-> 0 ]
    /\ word = [ t \in Threads |-> 0 ]
    /\ pos64 = [ t \in Threads |-> Small(0) ]
    /\ texCount = [ t \in Threads |-> 0 ]
    /\ i = [ t \in Threads |-> 0 ]
    /\ cbErr = [ t \in Threads |-> FALSE ]
    /\ firstStart = "none"
    /\ calls = [ t \in Threads |-> 0 ]
    /\ ret = [ t \in Threads |-> "none" ]

\* ------------------------------------------------------------ the stream
\* The bytes a read at the stream's position can still get.
Avail(s) ==
    IF s.pos[1] = 0 /\ s.pos[2] < Len(file) THEN Len(file) - s.pos[2] ELSE 0

\* fread of n bytes into a zeroed buffer: the bytes got, zero where the file ended.
ReadBuf(s, n) ==
    LET bytes == file
        got == IF s.pos[1] = 0 /\ s.pos[2] < Len(bytes) THEN Len(bytes) - s.pos[2] ELSE 0
    IN  [ k \in 1..n |-> IF k <= got THEN bytes[s.pos[2] + k] ELSE 0 ]

\* The stream after an fread of n bytes.
AfterRead(s, n) ==
    LET got == Avail(s)
    IN  IF got = 0 THEN s
        ELSE [ s EXCEPT !.pos = Small(s.pos[2] + (IF n <= got THEN n ELSE got)) ]

getBe32(s) == Be32(ReadBuf(s, 4))

getBe64(s) == Be64(ReadBuf(s, 8))

\* fseek(f, off, SEEK_SET): off is a signed 64-bit integer, a negative one is refused.
fseek(s, off) ==
    IF off[1] \div 65536 >= 32768 THEN s ELSE [ s EXCEPT !.pos = off ]

ferror(s) == s.err

\* ------------------------------------------------------------ thread steps
At(t, line) == ~aborted /\ pc[t] = line

Goto(t, line) == pc' = [ pc EXCEPT ![t] = line ]

\* The thread returns to its caller with the call's outcome.
Return(t, outcome) ==
    /\ pc' = [ pc EXCEPT ![t] = "idle" ]
    /\ ret' = [ ret EXCEPT ![t] = outcome ]
    /\ texId' = [ texId EXCEPT ![t] = 0 ]
    /\ word' = [ word EXCEPT ![t] = 0 ]
    /\ pos64' = [ pos64 EXCEPT ![t] = Small(0) ]
    /\ texCount' = [ texCount EXCEPT ![t] = 0 ]
    /\ i' = [ i EXCEPT ![t] = 0 ]
    /\ cbErr' = [ cbErr EXCEPT ![t] = FALSE ]

\* start() returns what readIndex() returned (lines 28-33).
ReturnFromStart(t, outcome) ==
    /\ Return(t, outcome)
    /\ firstStart' = IF firstStart = "none" THEN outcome ELSE firstStart
    /\ UNCHANGED << input, ndebug, calls >>

\* ------------------------------------------------------------------ start()
CallStart(t) ==
    /\ At(t, "idle")
    /\ Goto(t, "start:23")
    /\ ret' = [ ret EXCEPT ![t] = "none" ]
    /\ UNCHANGED << fixed, shared, texId, word, pos64, texCount, i, cbErr >>

\* StartCheck without the test of mStarted: every call goes on to readIndex().
StartCheckSkipped(t) ==
    /\ At(t, "start:23")
    /\ Goto(t, "start:27")
    /\ UNCHANGED << frame, shared, locals >>

\* line 23: if (mStarted)
StartCheck(t) ==
    /\ At(t, "start:23")
    /\ Goto(t, IF mStarted THEN "start:24" ELSE "start:27")
    /\ UNCHANGED << frame, shared, locals >>

\* line 24: return !mHasError;
StartAgain(t) ==
    /\ At(t, "start:24")
    /\ Return(t, IF mHasError THEN "false" ELSE "true")
    /\ UNCHANGED << frame, shared >>

\* line 27: mStarted = true; then readIndex() is entered
StartMark(t) ==
    /\ At(t, "start:27")
    /\ mStarted' = TRUE
    /\ Goto(t, "readIndex:50")
    /\ UNCHANGED << frame, mStream, mHasError, mIndex, mLock, aborted, locals >>

\* StartFailed without line 30: the failure is returned and not recorded.
StartFailedUnrecorded(t) ==
    /\ At(t, "start:30")
    /\ ReturnFromStart(t, "false")
    /\ UNCHANGED << mStream, mStarted, mHasError, mIndex, mLock, aborted >>

\* lines 29-31: readIndex() returned false
StartFailed(t) ==
    /\ At(t, "start:30")
    /\ mHasError' = TRUE
    /\ ReturnFromStart(t, "false")
    /\ UNCHANGED << mStream, mStarted, mIndex, mLock, aborted >>

\* -------------------------------------------------------------- readIndex()
\* line 50: assert(mIndex.size() == 0);
ReadIndexAssert(t) ==
    /\ At(t, "readIndex:50")
    /\ IF ~ndebug /\ DOMAIN mIndex # {}
       THEN aborted' = TRUE /\ UNCHANGED pc
       ELSE Goto(t, "readIndex:51") /\ UNCHANGED aborted
    /\ UNCHANGED << frame, mStream, mStarted, mHasError, mIndex, mLock, locals >>

\* line 51: auto indexPos = mStream.getBe64();
ReadIndexPos(t) ==
    /\ At(t, "readIndex:51")
    /\ pos64' = [ pos64 EXCEPT ![t] = getBe64(mStream) ]
    /\ mStream' = AfterRead(mStream, 8)
    /\ Goto(t, "readIndex:52")
    /\ UNCHANGED << frame, mStarted, mHasError, mIndex, mLock, aborted,
                    texId, word, texCount, i, cbErr, ret >>

\* line 52: fseek(mStream.get(), static_cast<int64_t>(indexPos), SEEK_SET);
ReadIndexSeek(t) ==
    /\ At(t, "readIndex:52")
    /\ mStream' = fseek(mStream, pos64[t])
    /\ Goto(t, "readIndex:53")
    /\ UNCHANGED << frame, mStarted, mHasError, mIndex, mLock, aborted, locals >>

\* lines 53-56: auto version = mStream.getBe32(); if (version != 1) return false;
ReadIndexVersion(t) ==
    /\ At(t, "readIndex:53")
    /\ mStream' = AfterRead(mStream, 4)
    /\ Goto(t, IF getBe32(mStream) # SupportedVersion THEN "start:30" ELSE "readIndex:57")
    /\ UNCHANGED << frame, mStarted, mHasError, mIndex, mLock, aborted, locals >>

\* ReadIndexCount with a check of the read: a count that could not be read in full
\* makes readIndex return false.
ReadIndexCountChecked(t) ==
    /\ At(t, "readIndex:57")
    /\ mStream' = AfterRead(mStream, 4)
    /\ IF Avail(mStream) < 4
       THEN /\ Goto(t, "start:30")
            /\ UNCHANGED << frame, locals >>
       ELSE IF getBe32(mStream) > 0
            THEN /\ texCount' = [ texCount EXCEPT ![t] = getBe32(mStream) ]
                 /\ Goto(t, "readIndex:60")
                 /\ UNCHANGED << frame, texId, word, pos64, i, cbErr, ret >>
            ELSE ReturnFromStart(t, "true")
    /\ UNCHANGED << mStarted, mHasError, mIndex, mLock, aborted >>

\* lines 57-59: texCount = mStream.getBe32(); mIndex.reserve(texCount); the loop test
\* with i = 0; with no record to read readIndex returns true and so does start()
\* (line 33).
ReadIndexCount(t) ==
    /\ At(t, "readIndex:57")
    /\ mStream' = AfterRead(mStream, 4)
    /\ IF getBe32(mStream) > 0
       THEN /\ texCount' = [ texCount EXCEPT ![t] = getBe32(mStream) ]
            /\ Goto(t, "readIndex:60")
            /\ UNCHANGED << frame, texId, word, pos64, i, cbErr, ret >>
       ELSE ReturnFromStart(t, "true")
    /\ UNCHANGED << mStarted, mHasError, mIndex, mLock, aborted >>

\* A record count read from the wrong place can be any 32-bit number: the model follows
\* the loop for MaxLoop rounds and leaves the thread in it.
MaxLoop == MaxRecords + 1

\* line 60: uint32_t tex = mStream.getBe32();
ReadIndexTex(t) ==
    /\ At(t, "readIndex:60")
    /\ i[t] < MaxLoop
    /\ word' = [ word EXCEPT ![t] = getBe32(mStream) ]
    /\ mStream' = AfterRead(mStream, 4)
    /\ Goto(t, "readIndex:61")
    /\ UNCHANGED << frame, mStarted, mHasError, mIndex, mLock, aborted,
                    texId, pos64, texCount, i, cbErr, ret >>

\* ReadIndexFilePos with a 32-bit read (getBe32) of the record's offset.
ReadIndexFilePos32(t) ==
    /\ At(t, "readIndex:61")
    /\ pos64' = [ pos64 EXCEPT ![t] = Small(getBe32(mStream)) ]
    /\ mStream' = AfterRead(mStream, 4)
    /\ Goto(t, "readIndex:62")
    /\ UNCHANGED << frame, mStarted, mHasError, mIndex, mLock, aborted,
                    texId, word, texCount, i, cbErr, ret >>

\* line 61: uint64_t filePos = mStream.getBe64();
ReadIndexFilePos(t) ==
    /\ At(t, "readIndex:61")
    /\ pos64' = [ pos64 EXCEPT ![t] = getBe64(mStream) ]
    /\ mStream' = AfterRead(mStream, 8)
    /\ Goto(t, "readIndex:62")
    /\ UNCHANGED << frame, mStarted, mHasError, mIndex, mLock, aborted,
                    texId, word, texCount, i, cbErr, ret >>

\* emplace as insert_or_assign: the value of a key that is there is replaced.
emplaceOrAssign(index, key, value) ==
    [ k \in DOMAIN index \cup { key } |-> IF k = key THEN value ELSE index[k] ]

\* std::unordered_map::emplace: inserts only when the key is not there yet.
emplace(index, key, value) ==
    IF key \in DOMAIN index THEN index
    ELSE [ k \in DOMAIN index \cup { key } |-> IF k = key THEN value ELSE index[k] ]

\* line 62: mIndex.emplace(tex, filePos); then i++ and the loop test of line 59;
\* after the last record readIndex returns true and so does start() (line 33).
ReadIndexEmplace(t) ==
    /\ At(t, "readIndex:62")
    /\ mIndex' = emplace(mIndex, word[t], pos64[t])
    /\ IF i[t] + 1 < texCount[t]
       THEN /\ i' = [ i EXCEPT ![t] = i[t] + 1 ]
            /\ Goto(t, "readIndex:60")
            /\ UNCHANGED << frame, texId, word, pos64, texCount, cbErr, ret >>
       ELSE ReturnFromStart(t, "true")
    /\ UNCHANGED << mStream, mStarted, mHasError, mLock, aborted >>

\* ------------------------------------------------------------ loadTexture()
CallLoad(t, id) ==
    /\ At(t, "idle")
    /\ Goto(t, "load:37")
    /\ texId' = [ texId EXCEPT ![t] = id ]
    /\ ret' = [ ret EXCEPT ![t] = "none" ]
    /\ UNCHANGED << fixed, shared, word, pos64, texCount, i, cbErr >>

\* LoadLock without the wait: the lock is taken whether or not it is free.
LoadLockUnguarded(t) ==
    /\ At(t, "load:37")
    /\ mLock' = t
    /\ Goto(t, "load:38")
    /\ UNCHANGED << frame, mStream, mStarted, mHasError, mIndex, aborted, locals >>

\* line 37: android::base::AutoLock scopedLock(mLock);
LoadLock(t) ==
    /\ At(t, "load:37")
    /\ mLock = 0
    /\ mLock' = t
    /\ Goto(t, "load:38")
    /\ UNCHANGED << frame, mStream, mStarted, mHasError, mIndex, aborted, locals >>

\* operator[] as an assignment of 0: the value of a key that is there is reset.
subscriptAssign(index, key) ==
    [ k \in DOMAIN index \cup { key } |-> IF k = key THEN Small(0) ELSE index[k] ]

\* std::unordered_map::operator[]: a missing key is inserted with the value 0.
subscript(index, key) ==
    IF key \in DOMAIN index THEN index
    ELSE [ k \in DOMAIN index \cup { key } |-> IF k = key THEN Small(0) ELSE index[k] ]

\* LoadLookup with a lookup that does not insert (find, and 0 for a missing key).
LoadLookupNoInsert(t) ==
    /\ At(t, "load:38")
    /\ IF ~ndebug /\ texId[t] \notin DOMAIN mIndex
       THEN /\ aborted' = TRUE
            /\ UNCHANGED << pc, pos64 >>
       ELSE /\ pos64' = [ pos64 EXCEPT ![t] = IF texId[t] \in DOMAIN mIndex
                                               THEN mIndex[texId[t]] ELSE Small(0) ]
            /\ Goto(t, "load:39")
            /\ UNCHANGED aborted
    /\ UNCHANGED << frame, mStream, mStarted, mHasError, mIndex, mLock,
                    texId, word, texCount, i, cbErr, ret >>

\* line 38: assert(mIndex.count(texId)); and line 39, the argument: mIndex[texId].
\* The two accesses to mIndex are one step: no entry is ever removed, so what another
\* thread does to mIndex in between could as well happen before or after both.
LoadLookup(t) ==
    /\ At(t, "load:38")
    /\ IF ~ndebug /\ texId[t] \notin DOMAIN mIndex
       THEN /\ aborted' = TRUE
            /\ UNCHANGED << mIndex, pc, pos64 >>
       ELSE /\ mIndex' = subscript(mIndex, texId[t])
            /\ pos64' = [ pos64 EXCEPT ![t] = mIndex'[texId[t]] ]
            /\ Goto(t, "load:39")
            /\ UNCHANGED aborted
    /\ UNCHANGED << frame, mStream, mStarted, mHasError, mLock,
                    texId, word, texCount, i, cbErr, ret >>

\* LoadSeek with SEEK_CUR for SEEK_SET: the offset is added to the position.
LoadSeekFromCurrent(t) ==
    /\ At(t, "load:39")
    /\ mStream' = [ mStream EXCEPT !.pos = U64(mStream.pos[1] + pos64[t][1],
                                                mStream.pos[2] + pos64[t][2]) ]
    /\ Goto(t, "load:40")
    /\ UNCHANGED << frame, mStarted, mHasError, mIndex, mLock, aborted, locals >>

\* LoadSeek with the lock's scope ending at the seek, before the callback.
LoadSeekThenUnlock(t) ==
    /\ At(t, "load:39")
    /\ mStream' = fseek(mStream, pos64[t])
    /\ mLock' = 0
    /\ Goto(t, "load:40")
    /\ UNCHANGED << frame, mStarted, mHasError, mIndex, aborted, locals >>

\* line 39, the call: fseek(mStream.get(), ..., SEEK_SET);
LoadSeek(t) ==
    /\ At(t, "load:39")
    /\ mStream' = fseek(mStream, pos64[t])
    /\ Goto(t, "load:40")
    /\ UNCHANGED << frame, mStarted, mHasError, mIndex, mLock, aborted, locals >>

\* line 40: loader(&mStream); the callback is the caller's: entered at "load:40", it
\* reads one word of payload at the stream's position (the read may fail, which sets
\* the stream's error indicator), or nothing at all, and returns.
CallbackRead(t) ==
    /\ At(t, "load:40")
    /\ mStream' = AfterRead(mStream, 4)
    /\ Goto(t, "load:40:read")
    /\ UNCHANGED << frame, mStarted, mHasError, mIndex, mLock, aborted, locals >>

CallbackReadError(t) ==
    /\ At(t, "load:40")
    /\ mStream' = [ mStream EXCEPT !.err = TRUE ]
    /\ cbErr' = [ cbErr EXCEPT ![t] = TRUE ]
    /\ Goto(t, "load:40:read")
    /\ UNCHANGED << frame, mStarted, mHasError, mIndex, mLock, aborted,
                    texId, word, pos64, texCount, i, ret >>

\* The callback returns, and line 41: if (ferror(mStream.get()))
CallbackReturn(t) ==
    /\ ~aborted
    /\ pc[t] \in { "load:40", "load:40:read" }
    /\ Goto(t, IF ferror(mStream) THEN "load:42" ELSE "load:44")
    /\ UNCHANGED << frame, shared, locals >>

\* LoadSetError without line 42: the stream's error is seen and not recorded.
LoadSetErrorUnrecorded(t) ==
    /\ At(t, "load:42")
    /\ mLock' = 0
    /\ Return(t, "none")
    /\ UNCHANGED << frame, mStream, mStarted, mHasError, mIndex, aborted >>

\* LoadSetError with a return that leaves the lock held (a lock() without the scoped
\* guard's unlock on the error path).
LoadSetErrorKeepsLock(t) ==
    /\ At(t, "load:42")
    /\ mHasError' = TRUE
    /\ Return(t, "none")
    /\ UNCHANGED << frame, mStream, mStarted, mIndex, mLock, aborted >>

\* line 42: mHasError = true; and line 44: scopedLock's destructor unlocks mLock;
\* loadTexture returns.  One step: until the unlock no other thread's step depends
\* on mLock, so a step between the two could as well come after the unlock.
LoadSetError(t) ==
    /\ At(t, "load:42")
    /\ mHasError' = TRUE
    /\ mLock' = 0
    /\ Return(t, "none")
    /\ UNCHANGED << frame, mStream, mStarted, mIndex, aborted >>

\* LoadUnlock after "mHasError = ferror(...)" for lines 41-43: a clean stream clears
\* the flag.
LoadUnlockClearing(t) ==
    /\ At(t, "load:44")
    /\ mHasError' = FALSE
    /\ mLock' = 0
    /\ Return(t, "none")
    /\ UNCHANGED << frame, mStream, mStarted, mIndex, aborted >>

\* line 44: scopedLock's destructor unlocks mLock; loadTexture returns
LoadUnlock(t) ==
    /\ At(t, "load:44")
    /\ mLock' = 0
    /\ Return(t, "none")
    /\ UNCHANGED << frame, mStream, mStarted, mHasError, mIndex, aborted >>

\* --------------------------------------------------------- specifications
\* ---- the callers
\* The first start() is under way: some thread is past the test of line 23 with
\* mStarted found false, and has not returned yet.
FirstStartRunning ==
    \E u \in Threads :
        \/ pc[u] = "start:23" /\ ~mStarted
        \/ pc[u] \in { "start:27", "start:30", "readIndex:50", "readIndex:51", "readIndex:52",
                       "readIndex:53", "readIndex:57", "readIndex:60", "readIndex:61",
                       "readIndex:62" }

\* The callers' side of the concurrency contract: the first start() runs alone, it
\* begins when no other call is in progress and no call begins before it returned.
\* Later start() calls and loadTexture() calls overlap freely.
MayCallStart(t) == ~FirstStartRunning /\ (mStarted \/ \A u \in Threads : pc[u] = "idle")

MayCallLoad(t) == ~FirstStartRunning

\* Callers that keep the contract.
Next ==
    \E t \in Threads :
        \/ MayCallStart(t) /\ CallStart(t) /\ UNCHANGED calls
        \/ MayCallLoad(t) /\ (\E id \in TexIds : CallLoad(t, id)) /\ UNCHANGED calls
        \/ StartCheck(t)
        \/ StartAgain(t)
        \/ StartMark(t)
        \/ StartFailed(t)
        \/ ReadIndexAssert(t)
        \/ ReadIndexPos(t)
        \/ ReadIndexSeek(t)
        \/ ReadIndexVersion(t)
        \/ ReadIndexCount(t)
        \/ ReadIndexTex(t)
        \/ ReadIndexFilePos(t)
        \/ ReadIndexEmplace(t)
        \/ LoadLock(t)
        \/ LoadLookup(t)
        \/ LoadSeek(t)
        \/ CallbackRead(t)
        \/ CallbackReadError(t)
        \/ CallbackReturn(t)
        \/ LoadSetError(t)
        \/ LoadUnlock(t)

Spec == Init /\ [][Next]_vars

\* Callers that keep the contract, with a scheduler that lets every thread inside
\* loadTexture run (a callback that is entered returns), and a fair lock: a thread
\* that finds mLock free again and again gets it.
LoadStep(t) ==
    \/ LoadLookup(t)
    \/ LoadSeek(t)
    \/ CallbackRead(t)
    \/ CallbackReadError(t)
    \/ CallbackReturn(t)
    \/ LoadSetError(t)
    \/ LoadUnlock(t)

SpecLive ==
    /\ Init
    /\ [][Next]_vars
    /\ \A t \in Threads : WF_vars(LoadStep(t)) /\ SF_vars(LoadLock(t))

\* Callers that keep the contract, over files that may be truncated.
SpecDamaged == InitDamaged /\ [][Next]_vars

\* Callers that do not: any thread may call start() or loadTexture() at any time,
\* MaxCalls times each.
Spend(t) == calls[t] < MaxCalls /\ calls' = [ calls EXCEPT ![t] = calls[t] + 1 ]

NextRace ==
    \E t \in Threads :
        \/ Spend(t) /\ CallStart(t)
        \/ Spend(t) /\ (\E id \in TexIds : CallLoad(t, id))
        \/ StartCheck(t)
        \/ StartAgain(t)
        \/ StartMark(t)
        \/ StartFailed(t)
        \/ ReadIndexAssert(t)
        \/ ReadIndexPos(t)
        \/ ReadIndexSeek(t)
        \/ ReadIndexVersion(t)
        \/ ReadIndexCount(t)
        \/ ReadIndexTex(t)
        \/ ReadIndexFilePos(t)
        \/ ReadIndexEmplace(t)
        \/ LoadLock(t)
        \/ LoadLookup(t)
        \/ LoadSeek(t)
        \/ CallbackRead(t)
        \/ CallbackReadError(t)
        \/ CallbackReturn(t)
        \/ LoadSetError(t)
        \/ LoadUnlock(t)

SpecRace == Init /\ [][NextRace]_vars


\* ------------------------------------------------------------------ claims
\* A thread has looked its id up and is about to seek.
AboutToSeek(t) == pc[t] = "load:39"

\* A thread has sought the stream and its callback has not returned yet.
InCallback(t) == pc[t] \in { "load:40", "load:40:read" }

\* The ids of the file's records, and the offset of the first and of the last record
\* with a given id.
RecordIds == { input.recs[k].id : k \in 1..Len(input.recs) }

FirstOffset(id) ==
    input.recs[CHOOSE k \in 1..Len(input.recs) :
        input.recs[k].id = id /\ \A j \in 1..(k - 1) : input.recs[j].id # id].off

LastOffset(id) ==
    input.recs[CHOOSE k \in 1..Len(input.recs) :
        input.recs[k].id = id /\ \A j \in (k + 1)..Len(input.recs) : input.recs[j].id # id].off

\* C1: while a thread is between its seek of the shared stream and the return of its
\* callback, no other thread is about to seek the stream in loadTexture or is
\* inside its own callback: at most one thread at a time is in the seek-then-callback
\* section.
C1_LoadSectionExclusive ==
    \A t \in Threads : \A u \in Threads \ { t } :
        InCallback(t) => ~AboutToSeek(u) /\ ~InCallback(u)

\* C1 witness: one thread is inside its callback, having read from the stream, while
\* another has called loadTexture and waits for the lock.
C1_Witness ==
    \E t \in Threads : \E u \in Threads \ { t } :
        pc[t] = "load:40:read" /\ pc[u] = "load:37" /\ mLock = t

\* C2: once the first start() has returned successfully, whenever a loadTexture
\* callback is entered the stream's position is the offset the index maps that call's
\* own id to.
C2_CallbackSeesOwnOffset ==
    \A t \in Threads :
        (firstStart = "true" /\ pc[t] = "load:40") =>
            texId[t] \in DOMAIN mIndex /\ mStream.pos = mIndex[texId[t]]

\* C2 witness: after a successful start(), a callback is entered at the offset of the
\* second record while another thread, which asked for the first record's id, waits.
C2_Witness ==
    \E t \in Threads : \E u \in Threads \ { t } :
        /\ firstStart = "true"
        /\ Len(input.recs) >= 2
        /\ pc[t] = "load:40" /\ texId[t] = input.recs[2].id
        /\ pc[u] = "load:37" /\ texId[u] = input.recs[1].id
        /\ texId[t] # texId[u]
        /\ mStream.pos = Small(PayloadOffset(2))


\* The lines of start() and of readIndex().
StartLines ==
    { "start:23", "start:24", "start:27", "start:30", "readIndex:50", "readIndex:51",
      "readIndex:52", "readIndex:53", "readIndex:57", "readIndex:60", "readIndex:61",
      "readIndex:62" }

\* C3: every start() call that has returned, returned what the first start() call
\* returned, whatever loadTexture calls happened in between.
C3_StartOutcomeStable ==
    \A t \in Threads : ret[t] # "none" => ret[t] = firstStart

\* C4: once the first start() has returned, with success or with failure, every step
\* of every start() call stays within lines 23-24 and leaves the stream (position and
\* error indicator) and the index as they are: the index is read from the stream at
\* most once.
C4_IndexReadOnce ==
    [][ firstStart # "none" =>
          \A t \in Threads :
              ((pc[t] \in StartLines \/ pc'[t] \in StartLines) /\ pc'[t] # pc[t]) =>
                  /\ pc'[t] \in { "start:23", "start:24", "idle" }
                  /\ mStream' = mStream
                  /\ mIndex' = mIndex ]_vars

\* C4 witness: after a successful first start() that filled the index, a later
\* start() call is at line 24 while another thread is inside a load's callback.
C4_Witness ==
    \E t \in Threads : \E u \in Threads \ { t } :
        /\ firstStart = "true"
        /\ DOMAIN mIndex # {}
        /\ pc[t] = "start:24"
        /\ pc[u] = "load:40:read"

\* C5: with a version field other than 1 no start() ever returns success; and once the
\* first start() has failed, the loader is Failed (mStarted and mHasError are set) in
\* every later state and no start() call returns success.
C5_VersionGate ==
    /\ input.version # SupportedVersion => firstStart # "true"
    /\ firstStart = "false" =>
          mStarted /\ mHasError /\ \A t \in Threads : ret[t] # "true"

\* C5 witness: the file's version is 2, the first start() has failed, and a later
\* start() call by another thread has returned failure too.
C5_Witness ==
    \E t \in Threads : \E u \in Threads \ { t } :
        /\ input.version # SupportedVersion
        /\ firstStart = "false"
        /\ pc[t] = "idle" /\ ret[t] = "false"
        /\ pc[u] = "idle" /\ ret[u] = "false"


\* A thread in loadTexture is past the lookup of lines 38-39.
PastLookup(t) == pc[t] \in { "load:39", "load:40", "load:40:read", "load:42", "load:44" }

\* C6 as claimed: while the loader is not Ready (no start() has returned success) no
\* load gets past line 38 to the seek or the callback, and nothing faults.
C6_NotReadyLoadRefused ==
    firstStart # "true" => ~aborted /\ \A t \in Threads : ~PastLookup(t)

\* C6 as amended: a load issued while the loader is not Ready is not refused.  Built
\* with assertions the index then lacks the load's id, so the load stops at the assert
\* of line 38 (the process is terminated) and none gets past it; built with NDEBUG the load
\* gets offset 0 from mIndex[texId], and its callback is entered with the stream at
\* position 0.
C6_NotReadyLoadRuns ==
    firstStart # "true" =>
        /\ aborted => ~ndebug
        /\ \A t \in Threads :
              (~ndebug /\ pc[t] = "load:38") => texId[t] \notin DOMAIN mIndex
        /\ \A t \in Threads :
              PastLookup(t) =>
                  /\ ndebug
                  /\ texId[t] \in DOMAIN mIndex /\ mIndex[texId[t]] = Small(0)
                  /\ pos64[t] = Small(0)
                  /\ pc[t] = "load:40" => mStream.pos = Small(0)

\* C6 witness: in an NDEBUG build, after a failed start(), a load's callback is
\* entered with the stream at position 0.
C6_Witness ==
    \E t \in Threads :
        ndebug /\ firstStart = "false" /\ pc[t] = "load:40" /\ mStream.pos = Small(0)

\* C7 as claimed: the lookup of an id that is not in the index faults nothing, leaves
\* the index as it is and does not go on to the seek.
C7_AbsentIdRefused ==
    [][ \A t \in Threads :
          (pc[t] = "load:38" /\ texId[t] \notin DOMAIN mIndex) =>
              ~aborted' /\ mIndex' = mIndex /\ pc'[t] # "load:39" ]_vars

\* C7 as amended: the lookup of an id that is not in the index is no recoverable
\* failure.  Built with assertions, the assert of line 38 terminates the process with
\* the stream and the index untouched; built with NDEBUG, mIndex[texId] inserts the id
\* with offset 0 (the other entries stay), and the load goes on to seek to offset 0.
C7_AbsentIdLoad ==
    [][ \A t \in Threads :
          (pc[t] = "load:38" /\ texId[t] \notin DOMAIN mIndex /\ (pc'[t] # pc[t] \/ aborted')) =>
              IF ndebug
              THEN /\ ~aborted'
                   /\ pc'[t] = "load:39"
                   /\ pos64'[t] = Small(0)
                   /\ DOMAIN mIndex' = DOMAIN mIndex \cup { texId[t] }
                   /\ mIndex'[texId[t]] = Small(0)
                   /\ \A k \in DOMAIN mIndex : mIndex'[k] = mIndex[k]
                   /\ mStream' = mStream
              ELSE /\ aborted'
                   /\ pc'[t] = pc[t]
                   /\ mIndex' = mIndex
                   /\ mStream' = mStream ]_vars

\* C7 witness: in an NDEBUG build, after a successful start() on a file with records,
\* a load of an id that no record has is inside its callback at position 0.
C7_Witness ==
    \E t \in Threads :
        /\ ndebug /\ firstStart = "true" /\ RecordIds # {}
        /\ texId[t] \notin RecordIds
        /\ pc[t] = "load:40" /\ mStream.pos = Small(0)

\* C8 as claimed: the error is per call: a load takes the error branch of line 41
\* only when a read of its own callback failed.
C8_ErrorIsPerCall ==
    \A t \in Threads : pc[t] = "load:42" => cbErr[t]

\* C8 as amended: a load takes the error branch of line 41 exactly when the stream's
\* error indicator is set at its callback's return, whichever call's read set it; the
\* indicator is never cleared, and once a load that found it set has returned,
\* mHasError is set; a load begun with the indicator set still seeks to its id's
\* offset and runs its callback.
C8_StreamErrorSticks ==
    /\ \A t \in Threads :
          /\ pc[t] = "load:42" => ferror(mStream)
          /\ pc[t] = "load:44" => ~ferror(mStream)
          /\ (ferror(mStream) /\ pc[t] = "load:40" /\ firstStart = "true") =>
                mStream.pos = mIndex[texId[t]]
    /\ ferror(mStream) => mHasError \/ \E u \in Threads : cbErr[u]

\* C8 witness: after a successful start() and an earlier load whose callback failed,
\* a load of an id of the file, whose own callback read without failure, is on the
\* error branch.
C8_Witness ==
    \E t \in Threads :
        /\ firstStart = "true" /\ mHasError /\ ferror(mStream)
        /\ texId[t] \in RecordIds /\ pos64[t] = Small(FirstOffset(texId[t]))
        /\ pc[t] = "load:42" /\ ~cbErr[t]


\* No two records of the written file have the same texture id.
UniqueIds ==
    \A j, k \in 1..Len(input.recs) : input.recs[j].id = input.recs[k].id => j = k

\* No load has inserted an id through mIndex[texId]: built with assertions a load of
\* a missing id stops at line 38; built with NDEBUG it leaves an entry of offset 0
\* (records of a written file have offsets of 8 or more).
NoInserted == ~ndebug \/ \A k \in DOMAIN mIndex : mIndex[k] # Small(0)

\* C9: round trip.  For a written file whose records have unique ids, once start()
\* has returned success, and as long as no load has inserted a missing id, the index
\* is exactly the written mapping: every written id maps to its written offset and no
\* other id is present.
C9_RoundTrip ==
    (firstStart = "true" /\ UniqueIds /\ NoInserted) =>
        /\ input.version = SupportedVersion
        /\ mIndex = [ id \in RecordIds |-> Small(input.recs[CHOOSE k \in 1..Len(input.recs) :
                                                              input.recs[k].id = id].off) ]

\* C9 witness: start() has returned success on a file of two records with different
\* ids, and the index holds both ids with their offsets.
C9_Witness ==
    \E t \in Threads :
        /\ firstStart = "true" /\ pc[t] = "idle" /\ ret[t] = "true"
        /\ Len(input.recs) = 2 /\ UniqueIds
        /\ DOMAIN mIndex = { input.recs[1].id, input.recs[2].id }
        /\ mIndex[input.recs[1].id] = Small(PayloadOffset(1))
        /\ mIndex[input.recs[2].id] = Small(PayloadOffset(2))

\* C10 as claimed: when several records have the same texture id the last one wins:
\* once start() has returned success the index maps the id to the offset of the last
\* such record in file order.
C10_LastRecordWins ==
    (firstStart = "true" /\ ~UniqueIds /\ NoInserted) =>
        \A id \in RecordIds : id \in DOMAIN mIndex /\ mIndex[id] = Small(LastOffset(id))

\* C10 as amended: when several records have the same texture id the first one wins:
\* once start() has returned success the index maps the id to the offset of the first
\* such record in file order, and holds no id that no record has.
C10_FirstRecordWins ==
    (firstStart = "true" /\ ~UniqueIds /\ NoInserted) =>
        /\ DOMAIN mIndex = RecordIds
        /\ \A id \in RecordIds : mIndex[id] = Small(FirstOffset(id))

\* C10 witness: start() has returned success on a file with two records of one id at
\* different offsets, and the index maps the id to the first record's offset.
C10_Witness ==
    \E id \in RecordIds :
        /\ firstStart = "true" /\ FirstOffset(id) # LastOffset(id)
        /\ id \in DOMAIN mIndex /\ mIndex[id] = Small(FirstOffset(id))
        /\ \E t \in Threads : pc[t] = "idle" /\ ret[t] = "true"


\* C11 as claimed: once the first start() has returned, the index is read-only: no
\* step changes it.
C11_IndexReadOnly ==
    [][ firstStart # "none" => mIndex' = mIndex ]_vars

\* C11 as amended: once the first start() has returned, no step removes an index entry
\* or changes the offset of one; the lookup of a load whose id is in the index leaves
\* the index as it is; the index changes only in a build with NDEBUG, by the lookup of
\* a load whose id is not in the index, which adds that id with offset 0.
C11_IndexOnlyGrowsByLookup ==
    [][ firstStart # "none" =>
          /\ \A k \in DOMAIN mIndex : k \in DOMAIN mIndex' /\ mIndex'[k] = mIndex[k]
          /\ mIndex' # mIndex =>
                /\ ndebug
                /\ \E t \in Threads :
                      /\ pc[t] = "load:38" /\ pc'[t] = "load:39"
                      /\ texId[t] \notin DOMAIN mIndex
                      /\ DOMAIN mIndex' = DOMAIN mIndex \cup { texId[t] }
                      /\ mIndex'[texId[t]] = Small(0) ]_vars

\* C11 witness: in an NDEBUG build, after a successful start() on a file with records,
\* a load has looked up an id that no record has: the index holds the file's records
\* and that id with offset 0.
C11_Witness ==
    \E t \in Threads :
        /\ ndebug /\ firstStart = "true" /\ RecordIds # {}
        /\ pc[t] = "load:39" /\ texId[t] \notin RecordIds
        /\ DOMAIN mIndex = RecordIds \cup { texId[t] }
        /\ mIndex[texId[t]] = Small(0)
        /\ \A id \in RecordIds : mIndex[id] = Small(FirstOffset(id))


\* C12: construction does no stream I/O.  Until a start() has got to line 27 or a
\* load has got through its lookup, the loader is as constructed: no start() has
\* returned (Uninitialized), the index is empty, the error flag is clear, and the
\* stream is at the position it was handed over with, its error indicator clear.
C12_ConstructionDoesNoIO ==
    (~mStarted /\ mIndex = EmptyIndex) =>
        /\ firstStart = "none"
        /\ ~mHasError
        /\ mStream = [ pos |-> Small(0), err |-> FALSE ]

\* C12 witness: the first start() has been called and is about to set mStarted; the
\* loader is still as constructed.
C12_Witness ==
    \E t \in Threads :
        /\ pc[t] = "start:27" /\ ~mStarted
        /\ mIndex = EmptyIndex /\ ~mHasError
        /\ mStream = [ pos |-> Small(0), err |-> FALSE ]


\* C13: the error flag is sticky and loses no update.  A step that leaves line 30 (a
\* failed start()) or line 42 (a load that found the stream's error indicator set)
\* leaves the flag set, and no step of any call, in any interleaving of start() and
\* loadTexture() calls, clears a flag that is set.
C13_ErrorFlagSticky ==
    [][ ( \/ mHasError
          \/ \E t \in Threads : pc[t] \in { "start:30", "load:42" } /\ pc'[t] # pc[t] )
        => mHasError' ]_vars

\* C13 witness: the flag was set by a failed start(); one thread's load has found the
\* stream clean and is about to return while another thread's start() is at line 24,
\* and the flag is still set.
C13_Witness ==
    \E t \in Threads : \E u \in Threads \ { t } :
        /\ mHasError /\ firstStart = "false" /\ ~ferror(mStream)
        /\ pc[t] = "load:44" /\ pc[u] = "start:24"


\* The lines of readIndex() that read or seek the stream.
ReadIndexIO ==
    { "readIndex:51", "readIndex:52", "readIndex:53", "readIndex:57", "readIndex:60",
      "readIndex:61" }

\* C14: start() does not take the lock that guards loadTexture.  While a load is
\* between its seek and the return of its callback it holds mLock, and a step that
\* then changes the stream is either that load's own callback or a read or seek of
\* readIndex() in another thread, made with the lock still held by the load; never a
\* step of another load.  So only a start() running alongside a load can move the
\* stream under the load's callback; with start() returned before any load begins no
\* thread is in readIndex() and the callback sees the position its load sought.
C14_OnlyStartMovesStreamUnderLoad ==
    [][ \A t \in Threads :
          (InCallback(t) /\ mStream' # mStream) =>
              /\ mLock = t /\ mLock' = t
              /\ \/ pc'[t] # pc[t]
                 \/ \E u \in Threads \ { t } : pc[u] \in ReadIndexIO /\ pc'[u] # pc[u] ]_vars

\* C14 witness: built with assertions, a load of an id that readIndex() has already
\* inserted holds the lock and is entering its callback, while the start() that is
\* still reading the index in another thread has moved the stream off that id's
\* offset.
C14_Witness ==
    \E t \in Threads : \E u \in Threads \ { t } :
        /\ ~ndebug /\ mLock = t /\ pc[t] = "load:40"
        /\ texId[t] \in RecordIds /\ texId[t] \in DOMAIN mIndex
        /\ mIndex[texId[t]] = Small(FirstOffset(texId[t]))
        /\ pos64[t] = mIndex[texId[t]]
        /\ mStream.pos # mIndex[texId[t]]
        /\ pc[u] \in { "readIndex:60", "readIndex:61", "readIndex:62" }


\* C15 as claimed: whenever a start() call has returned success, in any interleaving
\* of calls, the version field of the file is the supported one and every id of the
\* file's records is in the index.
C15_SuccessMeansIndexBuilt ==
    \A t \in Threads :
        (pc[t] = "idle" /\ ret[t] = "true") =>
            /\ input.version = SupportedVersion
            /\ \A id \in RecordIds : id \in DOMAIN mIndex


\* C16 as claimed: every loadTexture call of every thread eventually returns.
C16_EveryLoadReturns ==
    \A t \in Threads : (pc[t] = "load:37") ~> (pc[t] = "idle")

\* C16 as amended: the lock is released on every path out of loadTexture, so with
\* callbacks that return and a fair lock every loadTexture call of every thread
\* eventually gets the lock and returns, unless a failed assert terminates the
\* process; and whenever no thread is inside loadTexture past line 37 the lock is
\* free.
C16_LoadReturnsOrProcessAborts ==
    /\ \A t \in Threads : (pc[t] = "load:37") ~> (pc[t] = "idle" \/ aborted)
    /\ [](mLock # 0 => \E t \in Threads :
              mLock = t /\ pc[t] \in { "load:38", "load:39", "load:40", "load:40:read",
                                       "load:42", "load:44" })

\* C16 witness: one thread waits for the lock at line 37 while the thread holding it
\* is on the error path of line 42.
C16_Witness ==
    \E t \in Threads : \E u \in Threads \ { t } :
        pc[t] = "load:37" /\ pc[u] = "load:42" /\ mLock = u /\ ~aborted


\* The lines of readIndex() behind the version check.
AfterVersionCheck == { "readIndex:57", "readIndex:60", "readIndex:61", "readIndex:62" }

\* What a start() on a stream nobody has read from gets as the version: the 4 bytes
\* at the position that the first 8 bytes of the file give, as the stream reads them.
FreshStream == [ pos |-> Small(0), err |-> FALSE ]

VersionRead == getBe32(fseek(AfterRead(FreshStream, 8), getBe64(FreshStream)))

\* C17: the version check is the only failure path of readIndex().  A thread gets to
\* line 30 only from the version check of lines 53-54, with a version read that is
\* not 1; a thread behind the version check stays in readIndex() until start() returns
\* true, whatever its reads of the count and of the records get from a file that may
\* be truncated; and the first start() on a loader nobody has loaded from returns true
\* exactly when the version read at the index section is 1.
C17_VersionCheckOnlyFailure ==
    /\ [][ \A t \in Threads :
             /\ (pc'[t] = "start:30" /\ pc[t] # "start:30") =>
                    pc[t] = "readIndex:53" /\ getBe32(mStream) # SupportedVersion
             /\ (pc[t] = "readIndex:53" /\ pc'[t] # pc[t] /\ getBe32(mStream) = SupportedVersion) =>
                    pc'[t] = "readIndex:57"
             /\ (pc[t] \in AfterVersionCheck /\ pc'[t] # pc[t]) =>
                    \/ pc'[t] \in AfterVersionCheck
                    \/ pc'[t] = "idle" /\ ret'[t] = "true" ]_vars
    /\ []( (firstStart # "none" /\ NoInserted) =>
              (firstStart = "true" <=> VersionRead = SupportedVersion) )

\* C17 witness: built with assertions, the first start() has returned true on a
\* truncated version-1 file: a record's id is missing from the index or has another
\* offset than the one written.
C17_Witness ==
    \E t \in Threads :
        /\ ~ndebug /\ input.cut >= 1 /\ input.version = SupportedVersion
        /\ firstStart = "true" /\ pc[t] = "idle" /\ ret[t] = "true"
        /\ \E id \in RecordIds :
              id \notin DOMAIN mIndex \/ mIndex[id] # Small(FirstOffset(id))

====
